---- MODULE Spec2Model ----
(***************************************************************************)
(* Model of utils/gradcam.py: generate_simple_heatmap, the heuristic       *)
(* saliency overlay generator, run as a sequence of invocations against a  *)
(* small file system (Spec), as two concurrent invocations (ConcSpec) and  *)
(* under generate_gradcam_heatmap (GradSpec); and of the routes that use   *)
(* it: upload of routes/predict.py (UploadSpec), results and the report    *)
(* routes of routes/reports.py (ReportSpec).                               *)
(*                                                                         *)
(* An image is a sequence of rows, a row a sequence of pixels, a pixel a   *)
(* triple of 8-bit channels.  Scalar fields are sequences of rows of       *)
(* integers.  The 8-bit stages (grayscale, first Gaussian pass, Sobel,     *)
(* colour lookup, blending) are integer-exact.  The floating-point fields  *)
(* are carried in fixed point: normalised fields in units of 1/ONE, the    *)
(* raw magnitude in units of 1/sqrt(MagUnit), the raw local statistics in  *)
(* units of 1/VarUnit.                                                     *)
(***************************************************************************)
EXTENDS Integers, Sequences, FiniteSets, TLC

VARIABLES
  files,       \* path -> file content
  pc,          \* position of the invocation: idle, loaded, fields, fused, blended, returned
  args,        \* image_path, output_path, prediction_class, alpha of the latest invocation
  img,         \* the decoded source image (BGR), None before it is read
  magnitude,   \* normalised gradient magnitude field
  local_var,   \* normalised local variance field
  fused,       \* the weighted sum of the two fields (first value of heatmap)
  heatmap,     \* the smoothed, normalised saliency field
  overlay,     \* the blended RGB image
  divided,     \* which of the three normalisations took the dividing branch
  ret,         \* outcome of the latest invocation: none, ValueError, cv2.error or the returned path
  wrote,       \* what imwrite did in the latest invocation: none, ok, false, truncated, error
  pre,         \* the file system as the latest invocation found it
  ref,         \* history: one earlier invocation that reached imwrite, any of them
  target_class,\* the target_class generate_gradcam_heatmap was last given
  probs,       \* the class probabilities the classifier last returned
  gcall,       \* the call of generate_gradcam_heatmap: its position, paths and exception
  db,          \* the committed Prediction rows, row k having id k
  disk,        \* the upload folders: path -> content of the file at that path
  session,     \* client -> its session: user_id, last_prediction_id
  reqs,        \* client -> the request it has in progress: position and locals
  resp,        \* the response last sent, and the client it went to
  clock,       \* datetime.now(), in whole seconds
  attempts,    \* how many uploads have saved their file
  procs,       \* concurrent invocations: process -> its frame (position, arguments, locals)
  cfiles       \* the file system the concurrent invocations share


(* ----------------------------- bounds --------------------------------- *)
\* largest number of pixels (width * height) of the exhaustively drawn source images
MaxPixels == 3
\* length of the one-row and one-column source images that hold a step edge
WideWidth == 8
\* fixed-point unit of the normalised fields (value 1.0)
ONE == 4096
\* the raw gradient magnitude is ISqrt(MagUnit * (sobelx^2 + sobely^2))
MagUnit == 1024
\* fixed-point unit of local_mean, local_sq_mean and the raw local_var
VarUnit == 16

\* channel triples the source images are drawn from (B, G, R)
Dark == <<0, 0, 0>>
Bright == <<40, 120, 250>>
Palette == { Dark, Bright }
\* prediction_class arguments: the two class names and an unrecognised one
Labels == { "cancer", "normal", "Cancer" }
\* alpha arguments, in hundredths
Alphas == { 0, 50, 100 }

SrcPaths == { "orig", "bad" }
OutPaths == { "heat" }
Paths == SrcPaths \cup OutPaths
WriteOutcomes == { "ok", "false", "truncated", "error" }

(* ----------------------------- helpers -------------------------------- *)
RECURSIVE SumTo(_, _)
SumTo(f, n) == IF n = 0 THEN 0 ELSE f[n] + SumTo(f, n - 1)

Max2(a, b) == IF a >= b THEN a ELSE b

RECURSIVE MaxTo(_, _)
MaxTo(f, n) == IF n = 1 THEN f[1] ELSE Max2(f[n], MaxTo(f, n - 1))

Height(im) == Len(im)
Width(im) == IF Len(im) = 0 THEN 0 ELSE Len(im[1])

\* numpy's ndarray.max() of a 2-D field
FieldMax(f) == MaxTo([y \in 1..Height(f) |-> MaxTo(f[y], Width(f))], Height(f))

\* nearest integer to a / b for a >= 0, b > 0
RoundDiv(a, b) == (2 * a + b) \div (2 * b)

\* cvRound(n / d): nearest integer, ties to even
RoundHalfEven(n, d) ==
  LET q == n \div d
      r == n % d
  IN  IF 2 * r < d THEN q
      ELSE IF 2 * r > d THEN q + 1
      ELSE IF q % 2 = 0 THEN q ELSE q + 1

\* saturate_cast<uchar>
Saturate(v) == IF v < 0 THEN 0 ELSE IF v > 255 THEN 255 ELSE v

RECURSIVE SqrtIter(_, _, _)
SqrtIter(n, lo, hi) ==
  IF lo = hi THEN lo
  ELSE LET mid == (lo + hi + 1) \div 2
       IN  IF mid * mid <= n THEN SqrtIter(n, mid, hi) ELSE SqrtIter(n, lo, mid - 1)

\* floor of the square root
ISqrt(n) == SqrtIter(n, 0, 46340)

(* ------------------------ OpenCV border and kernels -------------------- *)
\* variant: BORDER_CONSTANT, an index outside the line selects no element
BorderConstant(p, len) == IF p < 0 \/ p >= len THEN -1 ELSE p

\* cv2 BORDER_DEFAULT (BORDER_REFLECT_101): 0-based index p folded into 0..len-1
BorderInterpolate(p, len) ==
  IF len = 1 THEN 0
  ELSE LET period == 2 * (len - 1)
           q == p % period
       IN  IF q < len THEN q ELSE period - q

\* weight with which source element j (1-based) enters the filtered element x
\* (1-based) of a line of length len, for an odd-length kernel anchored at
\* its centre
Tap(kernel, len, x, j) ==
  LET r == (Len(kernel) - 1) \div 2
  IN  SumTo([k \in 1..Len(kernel) |->
               IF BorderInterpolate((x - 1) + (k - 1) - r, len) = j - 1
               THEN kernel[k] ELSE 0], Len(kernel))

Taps(kernel) ==
  [len \in (1..MaxPixels) \cup {WideWidth} |-> [x \in 1..len |-> [j \in 1..len |-> Tap(kernel, len, x, j)]]]

\* 21-tap Gaussian, sigma = 0.3*((21-1)*0.5 - 1) + 0.8 = 3.5, as the 8.8
\* fixed-point kernel of the 8-bit GaussianBlur (sums to 256)
GaussKernel21 == <<0, 2, 2, 4, 6, 11, 15, 20, 25, 28, 30, 28, 25, 20, 15, 11, 6, 4, 2, 2, 0>>

\* 31-tap Gaussian, sigma = 0.3*((31-1)*0.5 - 1) + 0.8 = 5.0, scaled by 2^16
GaussKernel31 ==
  <<58, 104, 178, 294, 466, 709, 1037, 1457, 1966, 2550, 3178, 3804, 4376, 4836, 5135,
    5239,
    5135, 4836, 4376, 3804, 3178, 2550, 1966, 1457, 1037, 709, 466, 294, 178, 104, 58>>

\* 3-tap Sobel derivative and smoothing kernels (ksize = 3)
SobelDeriv == <<-1, 0, 1>>
SobelSmooth == <<1, 2, 1>>

\* kernel_size of the local statistics window
kernel_size == 31
BoxKernel == [k \in 1..kernel_size |-> 1]

TapsGauss21 == Taps(GaussKernel21)
TapsGauss31 == Taps(GaussKernel31)
TapsDeriv == Taps(SobelDeriv)
TapsSmooth == Taps(SobelSmooth)
TapsBox == Taps(BoxKernel)

\* separable filter with unnormalised integer weights: rows with tx, columns
\* with ty
Filter2D(f, tx, ty) ==
  LET h == Height(f)
      w == Width(f)
      rowpass == [y \in 1..h |-> [x \in 1..w |->
                    SumTo([j \in 1..w |-> tx[w][x][j] * f[y][j]], w)]]
  IN  [y \in 1..h |-> [x \in 1..w |->
         SumTo([i \in 1..h |-> ty[h][y][i] * rowpass[i][x]], h)]]

(* --------------------------- the pipeline ------------------------------ *)
\* cv2.imread: the decoded BGR image, or None (the empty sequence) when the
\* path does not hold a readable image
None == << >>
\* variant: a path that holds no image decodes to one black pixel
ImreadBlank(f) == IF f.kind = "image" THEN f.data ELSE << << <<0, 0, 0>> >> >>

Imread(f) == IF f.kind = "image" THEN f.data ELSE None

\* cv2.cvtColor(img, COLOR_BGR2RGB) and COLOR_RGB2BGR: swap channels 1 and 3
SwapRB(im) ==
  [y \in 1..Height(im) |-> [x \in 1..Width(im) |->
     <<im[y][x][3], im[y][x][2], im[y][x][1]>>]]

\* cv2.cvtColor(img, COLOR_BGR2GRAY), 15-bit fixed point
CvtGray(im) ==
  [y \in 1..Height(im) |-> [x \in 1..Width(im) |->
     (3735 * im[y][x][1] + 19235 * im[y][x][2] + 9798 * im[y][x][3] + 16384) \div 32768]]

\* cv2.GaussianBlur(gray, (21, 21), 0) on 8-bit data: 8.8 row pass, 16.16
\* column pass, rounded back to 8 bits
GaussianBlur8U(gray) ==
  LET acc == Filter2D(gray, TapsGauss21, TapsGauss21)
  IN  [y \in 1..Height(gray) |-> [x \in 1..Width(gray) |-> (acc[y][x] + 32768) \div 65536]]

\* cv2.Sobel(blurred, CV_64F, 1, 0, ksize=3) and (..., 0, 1, ksize=3)
SobelX(blurred) == Filter2D(blurred, TapsDeriv, TapsSmooth)
SobelY(blurred) == Filter2D(blurred, TapsSmooth, TapsDeriv)

\* np.sqrt(sobelx**2 + sobely**2), before normalisation
Magnitude(blurred) ==
  LET sx == SobelX(blurred)
      sy == SobelY(blurred)
  IN  [y \in 1..Height(blurred) |-> [x \in 1..Width(blurred) |->
         ISqrt(MagUnit * (sx[y][x] * sx[y][x] + sy[y][x] * sy[y][x]))]]

\* the guard "if f.max() > 0"
Divides(f) == FieldMax(f) > 0

\* variant: division by the 8-bit full scale instead of the field maximum
NormalizeBy255(f) ==
  IF Divides(f)
  THEN [y \in 1..Height(f) |-> [x \in 1..Width(f) |-> (f[y][x] * ONE) \div 255]]
  ELSE f

\* "if f.max() > 0: f = f / f.max()"
Normalize(f) ==
  IF Divides(f)
  THEN LET m == FieldMax(f)
       IN  [y \in 1..Height(f) |-> [x \in 1..Width(f) |-> (f[y][x] * ONE) \div m]]
  ELSE f

\* (gray.astype(np.float32))**2
Squared(f) == [y \in 1..Height(f) |-> [x \in 1..Width(f) |-> f[y][x] * f[y][x]]]

\* variant: the variance is computed for the cancer class only
LocalVarForCancer(gray) ==
  [y \in 1..Height(gray) |-> [x \in 1..Width(gray) |->
     IF args.prediction_class = "cancer"
     THEN LET area == kernel_size * kernel_size
              s1 == Filter2D(gray, TapsBox, TapsBox)[y][x]
              s2 == Filter2D(Squared(gray), TapsBox, TapsBox)[y][x]
              m == RoundDiv(VarUnit * s1, area)
          IN  Max2(RoundDiv(VarUnit * s2, area) - RoundDiv(m * m, VarUnit), 0)
     ELSE 0]]

\* cv2.blur(..., (31, 31)) of gray and of gray**2, their difference, and the
\* clamp np.maximum(local_var, 0); before normalisation
LocalVar(gray) ==
  LET area == kernel_size * kernel_size
      sum1 == Filter2D(gray, TapsBox, TapsBox)
      sum2 == Filter2D(Squared(gray), TapsBox, TapsBox)
  IN  [y \in 1..Height(gray) |-> [x \in 1..Width(gray) |->
         LET local_mean == RoundDiv(VarUnit * sum1[y][x], area)
             local_sq_mean == RoundDiv(VarUnit * sum2[y][x], area)
         IN  Max2(local_sq_mean - RoundDiv(local_mean * local_mean, VarUnit), 0)]]

\* variant: the class name is compared without regard to case
FusionWeightsAnyCase(prediction_class) ==
  IF prediction_class \in {"cancer", "Cancer"} THEN <<4, 6>> ELSE <<6, 4>>

\* the two weights, in tenths, of magnitude and local_var
FusionWeights(prediction_class) ==
  IF prediction_class = "cancer" THEN <<4, 6>> ELSE <<6, 4>>

\* "heatmap = a * magnitude + b * local_var"
Fuse(mag, var, prediction_class) ==
  LET wt == FusionWeights(prediction_class)
  IN  [y \in 1..Height(mag) |-> [x \in 1..Width(mag) |->
         RoundDiv(wt[1] * mag[y][x] + wt[2] * var[y][x], 10)]]

\* cv2.GaussianBlur(heatmap.astype(np.float32), (31, 31), 0)
GaussianBlurF(f) ==
  LET h == Height(f)
      w == Width(f)
      ksum == SumTo(GaussKernel31, Len(GaussKernel31))
      rowpass == [y \in 1..h |-> [x \in 1..w |->
                    RoundDiv(SumTo([j \in 1..w |-> TapsGauss31[w][x][j] * f[y][j]], w), ksum)]]
  IN  [y \in 1..h |-> [x \in 1..w |->
         RoundDiv(SumTo([i \in 1..h |-> TapsGauss31[h][y][i] * rowpass[i][x]], h), ksum)]]

JetR ==
  <<
    0, 0, 0, 0, 0, 0, 0, 0, 0, 0, 0, 0, 0, 0, 0, 0,
    0, 0, 0, 0, 0, 0, 0, 0, 0, 0, 0, 0, 0, 0, 0, 0,
    0, 0, 0, 0, 0, 0, 0, 0, 0, 0, 0, 0, 0, 0, 0, 0,
    0, 0, 0, 0, 0, 0, 0, 0, 0, 0, 0, 0, 0, 0, 0, 0,
    0, 0, 0, 0, 0, 0, 0, 0, 0, 0, 0, 0, 0, 0, 0, 0,
    0, 0, 0, 0, 0, 0, 0, 0, 0, 0, 2, 5, 8, 12, 15, 18,
    21, 24, 28, 31, 34, 37, 41, 44, 47, 50, 54, 57, 60, 63, 66, 70,
    73, 76, 79, 83, 86, 89, 92, 95, 99, 102, 105, 108, 112, 115, 118, 121,
    124, 128, 131, 134, 137, 141, 144, 147, 150, 154, 157, 160, 163, 166, 170, 173,
    176, 179, 183, 186, 189, 192, 195, 199, 202, 205, 208, 212, 215, 218, 221, 224,
    228, 231, 234, 237, 241, 244, 247, 250, 254, 255, 255, 255, 255, 255, 255, 255,
    255, 255, 255, 255, 255, 255, 255, 255, 255, 255, 255, 255, 255, 255, 255, 255,
    255, 255, 255, 255, 255, 255, 255, 255, 255, 255, 255, 255, 255, 255, 255, 255,
    255, 255, 255, 255, 255, 255, 255, 255, 255, 255, 255, 255, 255, 255, 255, 255,
    255, 255, 255, 254, 250, 245, 241, 236, 232, 227, 222, 218, 213, 209, 204, 200,
    195, 191, 186, 182, 177, 172, 168, 163, 159, 154, 150, 145, 141, 136, 132, 127
  >>
JetG ==
  <<
    0, 0, 0, 0, 0, 0, 0, 0, 0, 0, 0, 0, 0, 0, 0, 0,
    0, 0, 0, 0, 0, 0, 0, 0, 0, 0, 0, 0, 0, 0, 0, 0,
    0, 4, 8, 12, 16, 20, 24, 28, 32, 36, 40, 44, 48, 52, 56, 60,
    64, 68, 72, 76, 80, 84, 88, 92, 96, 100, 104, 108, 112, 116, 120, 124,
    128, 132, 136, 140, 144, 148, 152, 156, 160, 164, 168, 172, 176, 180, 184, 188,
    192, 196, 200, 204, 208, 212, 216, 220, 224, 228, 232, 236, 240, 244, 248, 252,
    255, 255, 255, 255, 255, 255, 255, 255, 255, 255, 255, 255, 255, 255, 255, 255,
    255, 255, 255, 255, 255, 255, 255, 255, 255, 255, 255, 255, 255, 255, 255, 255,
    255, 255, 255, 255, 255, 255, 255, 255, 255, 255, 255, 255, 255, 255, 255, 255,
    255, 255, 255, 255, 255, 255, 255, 255, 255, 255, 255, 255, 255, 255, 255, 255,
    255, 255, 255, 255, 252, 248, 244, 240, 237, 233, 229, 226, 222, 218, 215, 211,
    207, 203, 200, 196, 192, 189, 185, 181, 177, 174, 170, 166, 163, 159, 155, 152,
    148, 144, 140, 137, 133, 129, 126, 122, 118, 115, 111, 107, 103, 100, 96, 92,
    89, 85, 81, 77, 74, 70, 66, 63, 59, 55, 52, 48, 44, 40, 37, 33,
    29, 26, 22, 18, 15, 11, 7, 3, 0, 0, 0, 0, 0, 0, 0, 0,
    0, 0, 0, 0, 0, 0, 0, 0, 0, 0, 0, 0, 0, 0, 0, 0
  >>
JetB ==
  <<
    127, 132, 136, 141, 145, 150, 154, 159, 163, 168, 172, 177, 182, 186, 191, 195,
    200, 204, 209, 213, 218, 222, 227, 232, 236, 241, 245, 250, 254, 255, 255, 255,
    255, 255, 255, 255, 255, 255, 255, 255, 255, 255, 255, 255, 255, 255, 255, 255,
    255, 255, 255, 255, 255, 255, 255, 255, 255, 255, 255, 255, 255, 255, 255, 255,
    255, 255, 255, 255, 255, 255, 255, 255, 255, 255, 255, 255, 255, 255, 255, 255,
    255, 255, 255, 255, 255, 255, 255, 254, 250, 247, 244, 241, 237, 234, 231, 228,
    225, 221, 218, 215, 212, 208, 205, 202, 199, 195, 192, 189, 186, 183, 179, 176,
    173, 170, 166, 163, 160, 157, 154, 150, 147, 144, 141, 137, 134, 131, 128, 125,
    121, 118, 115, 112, 108, 105, 102, 99, 95, 92, 89, 86, 83, 79, 76, 73,
    70, 66, 63, 60, 57, 54, 50, 47, 44, 41, 37, 34, 31, 28, 24, 21,
    18, 15, 12, 8, 5, 2, 0, 0, 0, 0, 0, 0, 0, 0, 0, 0,
    0, 0, 0, 0, 0, 0, 0, 0, 0, 0, 0, 0, 0, 0, 0, 0,
    0, 0, 0, 0, 0, 0, 0, 0, 0, 0, 0, 0, 0, 0, 0, 0,
    0, 0, 0, 0, 0, 0, 0, 0, 0, 0, 0, 0, 0, 0, 0, 0,
    0, 0, 0, 0, 0, 0, 0, 0, 0, 0, 0, 0, 0, 0, 0, 0,
    0, 0, 0, 0, 0, 0, 0, 0, 0, 0, 0, 0, 0, 0, 0, 0
  >>
\* index of the 256-entry lookup table that cm.jet takes for value v
JetIndex(v) == IF v >= ONE THEN 255 ELSE (v * 256) \div ONE

\* (cm.jet(heatmap)[:, :, :3] * 255).astype(np.uint8): RGB triples
HeatmapColored(hm) ==
  [y \in 1..Height(hm) |-> [x \in 1..Width(hm) |->
     LET i == JetIndex(hm[y][x]) + 1 IN <<JetR[i], JetG[i], JetB[i]>>]]

\* variant: rows and columns of the result exchanged
AddWeightedTransposed(src1, a1, src2, a2) ==
  [x \in 1..Width(src1) |-> [y \in 1..Height(src1) |->
     [c \in 1..3 |-> Saturate(RoundHalfEven(a1 * src1[y][x][c] + a2 * src2[y][x][c], 100))]]]

\* variant: the two weights exchanged
AddWeightedSwapped(src1, a1, src2, a2) ==
  [y \in 1..Height(src1) |-> [x \in 1..Width(src1) |->
     [c \in 1..3 |-> Saturate(RoundHalfEven(a2 * src1[y][x][c] + a1 * src2[y][x][c], 100))]]]

\* variant: the colour field is blended onto the image already at the output
\* path when there is one of the same size
AddWeightedOnto(src1, a1, src2, a2) ==
  LET old == files[args.output_path]
      base == IF old.kind = "image" /\ Height(old.data) = Height(src1)
                                   /\ Width(old.data) = Width(src1)
              THEN [y \in 1..Height(src1) |-> [x \in 1..Width(src1) |->
                      <<old.data[y][x][3], old.data[y][x][2], old.data[y][x][1]>>]]
              ELSE src1
  IN  [y \in 1..Height(src1) |-> [x \in 1..Width(src1) |->
         [c \in 1..3 |-> Saturate(RoundHalfEven(a1 * base[y][x][c] + a2 * src2[y][x][c], 100))]]]

\* cv2.addWeighted(src1, a1, src2, a2, 0) with the weights in hundredths
AddWeighted(src1, a1, src2, a2) ==
  [y \in 1..Height(src1) |-> [x \in 1..Width(src1) |->
     [c \in 1..3 |-> Saturate(RoundHalfEven(a1 * src1[y][x][c] + a2 * src2[y][x][c], 100))]]]

(* --------------------------- the file system --------------------------- *)
Missing == [kind |-> "missing", data |-> None]
Truncated == [kind |-> "truncated", data |-> None]
ImageFile(im) == [kind |-> "image", data |-> im]

\* variant: the image is written over the source path
ImwriteToSource(fs, path, image, outcome) ==
  IF outcome = "ok" THEN [fs EXCEPT ![args.image_path] = [kind |-> "image", data |-> image]]
  ELSE IF outcome = "truncated" THEN [fs EXCEPT ![args.image_path] = [kind |-> "truncated", data |-> << >>]]
  ELSE fs

\* imwrite to one fixed file name, whatever path was asked for
ImwriteFixedName(fs, path, image, outcome) ==
  IF outcome = "ok" THEN [fs EXCEPT !["heat1"] = [kind |-> "image", data |-> image]]
  ELSE IF outcome = "truncated" THEN [fs EXCEPT !["heat1"] = [kind |-> "truncated", data |-> << >>]]
  ELSE fs

\* cv2.imwrite(path, image) under the four things the platform can do:
\* write the file and return True, write nothing and return False, leave a
\* truncated file and return False, or raise cv2.error without writing.
\* A written file is held as the pixels it decodes to, the codec taken as
\* lossless (PNG)
Imwrite(fs, path, image, outcome) ==
  IF outcome = "ok" THEN [fs EXCEPT ![path] = ImageFile(image)]
  ELSE IF outcome = "truncated" THEN [fs EXCEPT ![path] = Truncated]
  ELSE fs

\* source images: every shape of at most MaxPixels pixels over the palette,
\* and a dark-to-bright step after the first pixel and at the middle of a row
\* and of a column of WideWidth pixels
Shapes == { s \in (1..MaxPixels) \X (1..MaxPixels) : s[1] * s[2] <= MaxPixels }
SmallImages == UNION { [1..s[2] -> [1..s[1] -> Palette]] : s \in Shapes }
StepRow(k) == << [x \in 1..WideWidth |-> IF x <= k THEN Dark ELSE Bright] >>
StepCol(k) == [y \in 1..WideWidth |-> << IF y <= k THEN Dark ELSE Bright >>]
StepAt == { 1, WideWidth \div 2 }
WideImages == { StepRow(k) : k \in StepAt } \cup { StepCol(k) : k \in StepAt }
Images == SmallImages \cup WideImages

(* --------------------------- state machine ----------------------------- *)
vars == <<files, pc, args, img, magnitude, local_var, fused, heatmap, overlay,
          divided, ret, wrote, pre, ref>>

\* the variables of the other machines of this module, which a sequential
\* invocation of generate_simple_heatmap never touches
concvars == <<procs, cfiles>>
gradvars == <<target_class, probs, gcall>>
webvars == <<db, disk, session, reqs, resp, clock, attempts>>
elsewhere == <<concvars, gradvars, webvars>>

\* the processes that invoke generate_simple_heatmap concurrently, and the
\* paths they may be given
Procs == { 1, 2 }
ConcSrcPaths == { "orig1", "orig2" }
ConcOutPaths == { "heat1", "heat2" }
ConcPaths == ConcSrcPaths \cup ConcOutPaths

NoArgs == [image_path |-> "", output_path |-> "", prediction_class |-> "", alpha |-> 0]
NoRef == [valid |-> FALSE, img |-> None, prediction_class |-> "", alpha |-> 0,
          magnitude |-> None, local_var |-> None, overlay |-> None]

\* a process that is not inside generate_simple_heatmap has no frame
NoFrame == [pc |-> "idle", args |-> NoArgs, img |-> None, magnitude |-> None,
            local_var |-> None, fused |-> None, heatmap |-> None, overlay |-> None,
            ret |-> "none", wrote |-> "none", beside |-> FALSE]

\* no concurrent invocation exists
ConcAtRest ==
  /\ procs = [p \in Procs |-> NoFrame]
  /\ cfiles = [p \in ConcPaths |-> Missing]

\* target_class = None
NoTargetClass == -1
NoProbs == <<0, 0>>
NoCall == [pc |-> "idle", image_path |-> "", output_path |-> "", ret |-> "none"]

\* generate_gradcam_heatmap has not been called
GradAtRest ==
  /\ target_class = NoTargetClass
  /\ probs = NoProbs
  /\ gcall = NoCall

\* a path in one of the upload folders: the folder and the parts its file
\* name is formatted from
NoPath == [folder |-> "", user_id |-> 0, timestamp |-> 0, name |-> << >>, id |-> 0]
\* a Prediction row that was not read
NoRow == [user_id |-> 0, original_image_path |-> NoPath, heatmap_image_path |-> NoPath,
          prediction_class |-> "", report_path |-> NoPath]
\* a client with no request in progress: no position and no locals
NoReq == [pc |-> "none", op |-> "", id |-> 0, original_path |-> NoPath,
          prediction_class |-> "", predicted_class |-> "", image |-> "",
          prediction |-> NoRow, report_path |-> NoPath, flash |-> "", trace |-> << >>]
NoResp == [client |-> "", op |-> "none", kind |-> "none", flash |-> "", id |-> 0, path |-> NoPath]
Clients == { "a", "b" }

\* the web application serves nothing: no row, no file, no session
WebAtRest ==
  /\ db = << >>
  /\ disk = << >>
  /\ session = [c \in Clients |-> [user_id |-> 0, last_prediction_id |-> 0]]
  /\ reqs = [c \in Clients |-> NoReq]
  /\ resp = NoResp
  /\ clock = 0
  /\ attempts = 0

Init ==
  /\ ConcAtRest
  /\ GradAtRest
  /\ WebAtRest
  /\ \E im \in Images :
       files = [p \in Paths |-> IF p = "orig" THEN ImageFile(im) ELSE Missing]
  /\ pc = "idle"
  /\ args = NoArgs
  /\ img = None
  /\ magnitude = None
  /\ local_var = None
  /\ fused = None
  /\ heatmap = None
  /\ overlay = None
  /\ divided = {}
  /\ ret = "none"
  /\ wrote = "none"
  /\ pre = files
  /\ ref = NoRef

\* lines 8-27: entry, cv2.imread, and the ValueError when it returns None
Invoke(image_path, output_path, prediction_class, alpha) ==
  /\ pc = "idle"
  /\ args' = [image_path |-> image_path, output_path |-> output_path,
              prediction_class |-> prediction_class, alpha |-> alpha]
  /\ pre' = files
  /\ img' = Imread(files[image_path])
  /\ IF img' = None
     THEN pc' = "returned" /\ ret' = "ValueError"
     ELSE pc' = "loaded" /\ ret' = "none"
  /\ magnitude' = None
  /\ local_var' = None
  /\ fused' = None
  /\ heatmap' = None
  /\ overlay' = None
  /\ divided' = {}
  /\ wrote' = "none"
  /\ UNCHANGED <<files, ref>>

\* generate_simple_heatmap called on its own
generate_simple_heatmap(image_path, output_path, prediction_class, alpha) ==
  /\ Invoke(image_path, output_path, prediction_class, alpha)
  /\ UNCHANGED elsewhere

\* lines 29-56: grayscale, blur, Sobel magnitude and local variance, each
\* normalised under its guard
ComputeFields ==
  /\ pc = "loaded"
  /\ LET gray == CvtGray(img)
         blurred == GaussianBlur8U(gray)
         mag == Magnitude(blurred)
         var == LocalVar(gray)
     IN  /\ magnitude' = Normalize(mag)
         /\ local_var' = Normalize(var)
         /\ divided' = (IF Divides(mag) THEN {"magnitude"} ELSE {})
                         \cup (IF Divides(var) THEN {"local_var"} ELSE {})
  /\ pc' = "fields"
  /\ UNCHANGED <<files, args, img, fused, heatmap, overlay, ret, wrote, pre, ref>>
  /\ UNCHANGED elsewhere

\* lines 58-71: class-dependent fusion, second blur, third normalisation
FuseFields ==
  /\ pc = "fields"
  /\ fused' = Fuse(magnitude, local_var, args.prediction_class)
  /\ LET smooth == GaussianBlurF(fused')
     IN  /\ heatmap' = Normalize(smooth)
         /\ divided' = divided \cup (IF Divides(smooth) THEN {"heatmap"} ELSE {})
  /\ pc' = "fused"
  /\ UNCHANGED <<files, args, img, magnitude, local_var, overlay, ret, wrote, pre, ref>>
  /\ UNCHANGED elsewhere

\* lines 73-78: colour lookup and alpha blend onto the RGB image
Blend ==
  /\ pc = "fused"
  /\ overlay' = AddWeighted(SwapRB(img), 100 - args.alpha, HeatmapColored(heatmap), args.alpha)
  /\ pc' = "blended"
  /\ UNCHANGED <<files, args, img, magnitude, local_var, fused, heatmap, divided,
                 ret, wrote, pre, ref>>
  /\ UNCHANGED elsewhere

\* lines 80-84: cv2.imwrite, whose result is not looked at, and the return of
\* output_path; a cv2.error raised by imwrite propagates
Write(outcome, remember) ==
  /\ pc = "blended"
  /\ files' = Imwrite(files, args.output_path, SwapRB(overlay), outcome)
  /\ wrote' = outcome
  /\ ret' = IF outcome = "error" THEN "cv2.error" ELSE args.output_path
  /\ ref' = IF remember
            THEN [valid |-> TRUE, img |-> img, prediction_class |-> args.prediction_class,
                  alpha |-> args.alpha, magnitude |-> magnitude, local_var |-> local_var,
                  overlay |-> overlay]
            ELSE ref
  /\ pc' = "returned"
  /\ UNCHANGED <<args, img, magnitude, local_var, fused, heatmap, overlay, divided, pre>>
  /\ UNCHANGED elsewhere

\* the caller has taken the result or the exception: the frame of the
\* invocation, with its arguments and locals, is gone
Return ==
  /\ pc = "returned"
  /\ pc' = "idle"
  /\ args' = NoArgs
  /\ img' = None
  /\ magnitude' = None
  /\ local_var' = None
  /\ fused' = None
  /\ heatmap' = None
  /\ overlay' = None
  /\ divided' = {}
  /\ ret' = "none"
  /\ wrote' = "none"
  /\ pre' = files
  /\ UNCHANGED <<files, ref>>

\* generate_simple_heatmap, called on its own, has returned
Finish ==
  /\ Return
  /\ UNCHANGED elsewhere

Next ==
  \/ \E image_path \in SrcPaths, output_path \in OutPaths,
        prediction_class \in Labels, alpha \in Alphas :
       generate_simple_heatmap(image_path, output_path, prediction_class, alpha)
  \/ ComputeFields
  \/ FuseFields
  \/ Blend
  \/ \E outcome \in WriteOutcomes, remember \in BOOLEAN : Write(outcome, remember)
  \/ Finish

Spec == Init /\ [][Next]_<<vars, elsewhere>>


(* ------------------------------ properties ----------------------------- *)
Pixels(f) == { <<y, x>> : y \in 1..Height(f), x \in 1..Width(f) }
Rectangular(im, h, w) == Height(im) = h /\ \A y \in 1..Height(im) : Len(im[y]) = w
Uniform(im) == \A q \in Pixels(im) : im[q[1]][q[2]] = im[1][1]
AllZero(f) == \A q \in Pixels(f) : f[q[1]][q[2]] = 0
FieldsComputed == magnitude # None
HeatmapComputed == heatmap # None
OverlayComputed == overlay # None
\* the latest invocation came back from imwrite
Ended == pc = "returned" /\ wrote # "none"
OutFile == files[args.output_path]
SameInputsAsRef ==
  /\ ref.valid
  /\ ref.img = img
  /\ ref.prediction_class = args.prediction_class
  /\ ref.alpha = args.alpha
\* the colour the lookup table holds for value 0
JetZero == <<JetR[1], JetG[1], JetB[1]>>

\* C1: the overlay handed to imwrite, and the image file it leaves at the
\* output path, have exactly the height and width of the source image.
OverlaySameSize ==
  /\ OverlayComputed => Rectangular(overlay, Height(img), Width(img))
  /\ (Ended /\ wrote = "ok") =>
       /\ OutFile.kind = "image"
       /\ Rectangular(OutFile.data, Height(img), Width(img))
OverlaySameSizeWitness ==
  Ended /\ wrote = "ok" /\ Width(img) > 1 /\ Height(img) = 1

\* C2: at every pixel the fused field is 0.4*magnitude + 0.6*local_var when
\* prediction_class is exactly 'cancer' and 0.6*magnitude + 0.4*local_var for
\* any other label.
FusedByLabel ==
  fused # None =>
    \A q \in Pixels(fused) :
      LET m == magnitude[q[1]][q[2]]
          v == local_var[q[1]][q[2]]
      IN  fused[q[1]][q[2]] =
            IF args.prediction_class = "cancer"
            THEN RoundDiv(4 * m + 6 * v, 10)
            ELSE RoundDiv(6 * m + 4 * v, 10)
FusedByLabelWitness ==
  /\ pc = "fused"
  /\ args.prediction_class = "Cancer"
  /\ \E q \in Pixels(fused) :
       RoundDiv(4 * magnitude[q[1]][q[2]] + 6 * local_var[q[1]][q[2]], 10)
         # fused[q[1]][q[2]]

\* C3: for a uniform source image the magnitude and local variance fields
\* are zero everywhere, none of the three normalisations divides, and every
\* overlay pixel is the source pixel blended with the colour of value 0.
UniformImageZeroFields ==
  Uniform(img) =>
    /\ FieldsComputed => AllZero(magnitude) /\ AllZero(local_var) /\ divided = {}
    /\ HeatmapComputed => AllZero(heatmap) /\ divided = {}
    /\ OverlayComputed =>
         \A q \in Pixels(overlay) : \A c \in 1..3 :
           overlay[q[1]][q[2]][c] =
             Saturate(RoundHalfEven((100 - args.alpha) * img[q[1]][q[2]][4 - c]
                                      + args.alpha * JetZero[c], 100))
UniformImageWitness ==
  /\ Ended /\ wrote = "ok"
  /\ Uniform(img) /\ img[1][1] # <<0, 0, 0>> /\ Width(img) > 1
  /\ args.alpha = 50

\* C4: when the invocation returns output_path the output file holds the
\* overlay, and when imwrite fails output_path is not returned and the
\* output file is as it was.
WriteAllOrNothing ==
  Ended =>
    /\ ret = args.output_path => OutFile = ImageFile(SwapRB(overlay))
    /\ wrote # "ok" => ret # args.output_path /\ OutFile = pre[args.output_path]

\* C5: when the source path holds no readable image the invocation ends at
\* once with ValueError: no field is computed, imwrite is not reached and
\* no file is changed.
UnreadableSourceFails ==
  /\ (args # NoArgs /\ pre[args.image_path].kind # "image") =>
       /\ pc = "returned" /\ ret = "ValueError"
       /\ img = None /\ ~FieldsComputed /\ ~HeatmapComputed /\ ~OverlayComputed
       /\ wrote = "none"
       /\ files = pre
  /\ ret = "ValueError" => (args # NoArgs /\ pre[args.image_path].kind # "image")
UnreadableSourceWitness ==
  /\ ret = "ValueError"
  /\ files["heat"].kind = "image"

\* C6: every overlay channel is (1-alpha)*original + alpha*colour rounded to
\* the nearest integer and clamped to 0..255; with alpha = 0 the overlay and
\* the written file are the original image, with alpha = 1 the overlay is
\* the colourised field.
BlendFactor ==
  OverlayComputed =>
    LET rgb == SwapRB(img)
        col == HeatmapColored(heatmap)
    IN  /\ \A q \in Pixels(overlay) : \A c \in 1..3 :
             LET o == overlay[q[1]][q[2]][c]
                 v == (100 - args.alpha) * rgb[q[1]][q[2]][c] + args.alpha * col[q[1]][q[2]][c]
             IN  /\ o \in 0..255
                 /\ v < 0 => o = 0
                 /\ v > 25500 => o = 255
                 /\ (v >= 0 /\ v <= 25500) => (100 * o - v <= 50 /\ v - 100 * o <= 50)
        /\ args.alpha = 0 => overlay = rgb
        /\ args.alpha = 100 => overlay = col
        /\ (args.alpha = 0 /\ Ended /\ wrote = "ok") => OutFile.data = img
BlendFactorWitness ==
  /\ Ended /\ wrote = "ok"
  /\ args.alpha = 0
  /\ ~Uniform(img)
  /\ HeatmapColored(heatmap) # SwapRB(img)

\* C7: an invocation with the same source image, class label and blend
\* factor as an earlier one computes the same overlay, whatever ran between.
SameInputsSameOverlay ==
  (OverlayComputed /\ SameInputsAsRef) => overlay = ref.overlay
SameInputsSameOverlayWitness ==
  /\ pc = "blended"
  /\ SameInputsAsRef
  /\ OutFile # ImageFile(SwapRB(ref.overlay))

\* C8: an invocation whose write succeeded has changed the file at the
\* output path, which holds the overlay, and no other file.
OnlyOutputWritten ==
  (Ended /\ wrote = "ok") =>
    /\ OutFile = ImageFile(SwapRB(overlay))
    /\ \A p \in Paths \ {args.output_path} : files[p] = pre[p]
OnlyOutputWrittenWitness ==
  /\ Ended /\ wrote = "ok"
  /\ pre[args.output_path].kind = "image"
  /\ pre[args.output_path] # OutFile
  /\ args.image_path # args.output_path

\* C9: after normalisation the magnitude, local variance and smoothed
\* saliency fields lie in [0,1], and each is zero everywhere or has maximum
\* exactly 1; the local variance is never negative.
InUnitRange(f) ==
  /\ \A q \in Pixels(f) : f[q[1]][q[2]] >= 0 /\ f[q[1]][q[2]] <= ONE
  /\ FieldMax(f) \in {0, ONE}
NormalisedFields ==
  /\ FieldsComputed => InUnitRange(magnitude) /\ InUnitRange(local_var)
  /\ HeatmapComputed => InUnitRange(heatmap)
NormalisedFieldsWitness ==
  /\ HeatmapComputed
  /\ divided = {"magnitude", "local_var", "heatmap"}
  /\ \E q \in Pixels(magnitude) : magnitude[q[1]][q[2]] > 0 /\ magnitude[q[1]][q[2]] < ONE
  /\ \E q \in Pixels(local_var) : local_var[q[1]][q[2]] > 0 /\ local_var[q[1]][q[2]] < ONE
  /\ \E q \in Pixels(heatmap) : heatmap[q[1]][q[2]] < ONE

\* C10: two invocations on the same image that differ only in the class
\* label have identical magnitude and local variance fields.
FieldsIgnoreLabel ==
  (FieldsComputed /\ ref.valid /\ ref.img = img /\ ref.alpha = args.alpha
     /\ ref.prediction_class # args.prediction_class)
    => (magnitude = ref.magnitude /\ local_var = ref.local_var)
FieldsIgnoreLabelWitness ==
  /\ pc = "fields"
  /\ ref.valid /\ ref.img = img /\ ref.alpha = args.alpha
  /\ ref.prediction_class = "cancer" /\ args.prediction_class = "normal"
  /\ ~AllZero(magnitude) /\ ~AllZero(local_var)


(* ---------------------- concurrent invocations -------------------------- *)
\* the sequential machine is at rest: nothing is invoked and no file exists
HeatAtRest ==
  /\ files = [p \in Paths |-> Missing]
  /\ pc = "idle"
  /\ args = NoArgs
  /\ img = None
  /\ magnitude = None
  /\ local_var = None
  /\ fused = None
  /\ heatmap = None
  /\ overlay = None
  /\ divided = {}
  /\ ret = "none"
  /\ wrote = "none"
  /\ pre = files
  /\ ref = NoRef

\* the source images of the concurrent invocations: the ones with an edge,
\* whose overlay depends on every stage of the pipeline
ConcImages == { StepRow(k) : k \in StepAt }

ConcLabels == { "cancer", "normal" }
ConcAlphas == { 50, 100 }

\* the paths the invocations in progress were given
PathsInUse(p) ==
  IF procs[p].pc = "idle" THEN {}
  ELSE { procs[p].args.image_path, procs[p].args.output_path }

\* history: another invocation is in progress while p takes a step
Beside(p) == \E q \in Procs \ {p} : procs[q].pc \notin { "idle", "returned" }

ConcInit ==
  /\ HeatAtRest
  /\ GradAtRest
  /\ WebAtRest
  /\ procs = [p \in Procs |-> NoFrame]
  /\ \E im1 \in ConcImages, im2 \in ConcImages :
       cfiles = [p \in ConcPaths |->
                  IF p = "orig1" THEN ImageFile(im1)
                  ELSE IF p = "orig2" THEN ImageFile(im2) ELSE Missing]

\* lines 8-27 in process p: entry and cv2.imread.  The invocations are on
\* independent images: p is given no path another invocation in progress has.
ConcEnter(p, image_path, output_path, prediction_class, alpha) ==
  /\ procs[p].pc = "idle"
  /\ \A q \in Procs \ {p} : { image_path, output_path } \cap PathsInUse(q) = {}
  /\ LET im == Imread(cfiles[image_path])
     IN  procs' = [procs EXCEPT ![p] =
           [NoFrame EXCEPT
              !.args = [image_path |-> image_path, output_path |-> output_path,
                        prediction_class |-> prediction_class, alpha |-> alpha],
              !.img = im,
              !.beside = Beside(p),
              !.pc = IF im = None THEN "returned" ELSE "loaded",
              !.ret = IF im = None THEN "ValueError" ELSE "none"]]
  /\ UNCHANGED <<cfiles, vars, gradvars, webvars>>

\* lines 29-56 in process p
ConcComputeFields(p) ==
  /\ procs[p].pc = "loaded"
  /\ LET gray == CvtGray(procs[p].img)
     IN  procs' = [procs EXCEPT ![p] =
           [@ EXCEPT !.magnitude = Normalize(Magnitude(GaussianBlur8U(gray))),
                     !.local_var = Normalize(LocalVar(gray)),
                     !.beside = @ \/ Beside(p),
                     !.pc = "fields"]]
  /\ UNCHANGED <<cfiles, vars, gradvars, webvars>>

\* lines 58-71 in process p
ConcFuseFields(p) ==
  /\ procs[p].pc = "fields"
  /\ LET f == Fuse(procs[p].magnitude, procs[p].local_var, procs[p].args.prediction_class)
     IN  procs' = [procs EXCEPT ![p] =
           [@ EXCEPT !.fused = f,
                     !.heatmap = Normalize(GaussianBlurF(f)),
                     !.beside = @ \/ Beside(p),
                     !.pc = "fused"]]
  /\ UNCHANGED <<cfiles, vars, gradvars, webvars>>

\* lines 73-78 in process p
ConcBlend(p) ==
  /\ procs[p].pc = "fused"
  /\ procs' = [procs EXCEPT ![p] =
        [@ EXCEPT !.overlay = AddWeighted(SwapRB(procs[p].img), 100 - procs[p].args.alpha,
                                          HeatmapColored(procs[p].heatmap), procs[p].args.alpha),
                  !.beside = @ \/ Beside(p),
                  !.pc = "blended"]]
  /\ UNCHANGED <<cfiles, vars, gradvars, webvars>>

\* lines 80-84 in process p: cv2.imwrite on the shared file system and return
ConcWrite(p, outcome) ==
  /\ procs[p].pc = "blended"
  /\ cfiles' = Imwrite(cfiles, procs[p].args.output_path, SwapRB(procs[p].overlay), outcome)
  /\ procs' = [procs EXCEPT ![p] =
        [@ EXCEPT !.wrote = outcome,
                  !.ret = IF outcome = "error" THEN "cv2.error" ELSE procs[p].args.output_path,
                  !.beside = @ \/ Beside(p),
                  !.pc = "returned"]]
  /\ UNCHANGED <<vars, gradvars, webvars>>

ConcNext ==
  \/ \E p \in Procs, image_path \in ConcSrcPaths, output_path \in ConcOutPaths,
        prediction_class \in ConcLabels, alpha \in ConcAlphas :
       ConcEnter(p, image_path, output_path, prediction_class, alpha)
  \/ \E p \in Procs : ConcComputeFields(p)
  \/ \E p \in Procs : ConcFuseFields(p)
  \/ \E p \in Procs : ConcBlend(p)
  \/ \E p \in Procs, outcome \in WriteOutcomes : ConcWrite(p, outcome)

ConcSpec == ConcInit /\ [][ConcNext]_<<vars, concvars, gradvars, webvars>>

\* the overlay generate_simple_heatmap computes from a source image, a label
\* and a blend factor when nothing else runs
RunAlone(im, prediction_class, alpha) ==
  CHOOSE o \in
    { AddWeighted(SwapRB(im), 100 - alpha, HeatmapColored(hm), alpha) :
        hm \in { Normalize(smooth) :
          smooth \in { GaussianBlurF(f) :
            f \in { Fuse(Normalize(mag), Normalize(var), prediction_class) :
              mag \in { Magnitude(blurred) :
                        blurred \in { GaussianBlur8U(gray) : gray \in { CvtGray(im) } } },
              var \in { LocalVar(gray) : gray \in { CvtGray(im) } } } } } } : TRUE

\* RunAlone on every input the concurrent invocations are given
AloneOverlays ==
  [im \in ConcImages |-> [l \in ConcLabels |-> [a \in ConcAlphas |-> RunAlone(im, l, a)]]]

\* C11: concurrent invocations on independent images do not interact: under
\* every interleaving, an invocation whose write succeeded has left in its
\* output file the overlay it computes from its source file, its label and
\* its blend factor when run alone, whatever the other invocation has done
\* or does afterwards
ConcurrentAsAlone ==
  \A p \in Procs :
    (procs[p].pc = "returned" /\ procs[p].wrote = "ok") =>
      cfiles[procs[p].args.output_path] =
        ImageFile(SwapRB(AloneOverlays[Imread(cfiles[procs[p].args.image_path])]
                                      [procs[p].args.prediction_class][procs[p].args.alpha]))

\* both invocations ran side by side on different images with different
\* arguments, both wrote, and their outputs differ
ConcurrentAsAloneWitness ==
  /\ \A p \in Procs : procs[p].pc = "returned" /\ procs[p].wrote = "ok" /\ procs[p].beside
  /\ procs[1].img # procs[2].img
  /\ procs[1].args.prediction_class # procs[2].args.prediction_class
  /\ cfiles["heat1"] # cfiles["heat2"]
  /\ cfiles["heat1"].kind = "image" /\ cfiles["heat2"].kind = "image"


(* ----------------------- generate_gradcam_heatmap ----------------------- *)
\* the values of target_class the docstring names: 0, 1 and None
TargetClasses == { 0, 1, NoTargetClass }

\* class probabilities (cancer, normal) in percent, as the classifier may
\* return them: either class ahead, and a tie
Probs == { <<90, 10>>, <<10, 90>>, <<50, 50>> }

\* np.argmax: the index of the first largest entry
Argmax(p) == IF p[1] >= p[2] THEN 0 ELSE 1

class_names == <<"cancer", "normal">>

\* lines 87-106: YOLO(model_path) loads the model and model(image_path)
\* reads the image and classifies it.  Loading or inference may raise, and
\* the classifier raises on a source it cannot read; the exception leaves
\* generate_gradcam_heatmap before generate_simple_heatmap is called
generate_gradcam_heatmap(image_path, output_path, tc, p, outcome) ==
  /\ pc = "idle"
  /\ gcall.pc = "idle"
  /\ target_class' = tc
  /\ IF outcome = "raise"
     THEN /\ probs' = NoProbs
          /\ gcall' = [pc |-> "idle", image_path |-> image_path,
                       output_path |-> output_path, ret |-> "Exception"]
     ELSE IF Imread(files[image_path]) = None
     THEN /\ probs' = NoProbs
          /\ gcall' = [pc |-> "idle", image_path |-> image_path,
                       output_path |-> output_path, ret |-> "FileNotFoundError"]
     ELSE /\ probs' = p
          /\ gcall' = [pc |-> "classified", image_path |-> image_path,
                       output_path |-> output_path, ret |-> "none"]
  /\ UNCHANGED <<vars, concvars, webvars>>

\* lines 108-113: the predicted class is the argmax of the probabilities,
\* and generate_simple_heatmap is called with that class and the default
\* alpha; it reads the image again
GradHeatmap ==
  /\ gcall.pc = "classified"
  /\ LET predicted_class == class_names[Argmax(probs) + 1]
     IN  Invoke(gcall.image_path, gcall.output_path, predicted_class, 50)
  /\ gcall' = [gcall EXCEPT !.pc = "heatmap"]
  /\ UNCHANGED <<target_class, probs, concvars, webvars>>

\* line 113: what generate_simple_heatmap returned or raised is what
\* generate_gradcam_heatmap returns or raises
GradReturn ==
  /\ gcall.pc = "heatmap"
  /\ Return
  /\ gcall' = [gcall EXCEPT !.pc = "idle", !.ret = ret]
  /\ UNCHANGED <<target_class, probs, concvars, webvars>>

\* what loading the model and running it may do
GradOutcomes == { "ok", "raise" }

GradNext ==
  \/ \E image_path \in SrcPaths, output_path \in OutPaths,
        tc \in TargetClasses, p \in Probs, outcome \in GradOutcomes :
       generate_gradcam_heatmap(image_path, output_path, tc, p, outcome)
  \/ GradHeatmap
  \/ ComputeFields
  \/ FuseFields
  \/ Blend
  \/ \E outcome \in WriteOutcomes : Write(outcome, FALSE)
  \/ GradReturn

GradSpec == Init /\ [][GradNext]_<<vars, gradvars, concvars, webvars>>

\* the weighting class the docstring of generate_gradcam_heatmap asks for
Requested(tc, p) ==
  IF tc = 0 THEN "cancer" ELSE IF tc = 1 THEN "normal" ELSE class_names[Argmax(p) + 1]

\* C12: generate_gradcam_heatmap fuses the fields with the weighting of the
\* requested target class: cancer for 0, normal for 1, and the predicted
\* class (argmax of the probabilities) only for None
HeatmapForTargetClass ==
  fused # None =>
    fused = Fuse(magnitude, local_var, Requested(target_class, probs))


(* ------------------------------ web routes ------------------------------ *)
\* the last second the clock reaches
MaxClock == 1
\* how many uploads may save their file
MaxAttempts == 2

Users == { 1, 2 }

\* a file name is the sequence of its parts, the dots being parts of their own
FileNames ==
  { << >>, <<"png">>, <<"scan", ".", "png", ".", "gif">>, <<"scan", ".", "PNG">>,
    <<"my scan", ".", "png">>, <<"my_scan", ".", "png">> }

\* the 'file' part of the posted form, which may be absent; a file holds
\* one of two X-ray images, whatever its name
Xrays == { "xray1", "xray2" }
NoFile == [present |-> FALSE, filename |-> << >>, content |-> ""]
Uploads ==
  { NoFile } \cup { [present |-> TRUE, filename |-> f, content |-> x] :
                      f \in FileNames, x \in Xrays }

ALLOWED_EXTENSIONS == { "png", "jpg", "jpeg" }

\* str.lower on a part of a file name
Lower(t) == IF t = "PNG" THEN "png" ELSE IF t = "GIF" THEN "gif" ELSE t

\* filename.rsplit('.', 1)[1]: the parts after the last dot
RsplitLast(filename) ==
  LET last == CHOOSE i \in 1..Len(filename) :
                /\ filename[i] = "."
                /\ \A j \in (i + 1)..Len(filename) : filename[j] # "."
  IN  SubSeq(filename, last + 1, Len(filename))

\* every file name with a dot let through
AllowedFileAnyExtension(filename) == \E i \in 1..Len(filename) : filename[i] = "."

\* predict.py lines 13-16
allowed_file(filename) ==
  /\ \E i \in 1..Len(filename) : filename[i] = "."
  /\ LET ext == RsplitLast(filename)
     IN  [i \in 1..Len(ext) |-> Lower(ext[i])] \in { <<e>> : e \in ALLOWED_EXTENSIONS }

\* werkzeug's secure_filename: white space becomes an underscore, the safe
\* characters stay
secure_filename(filename) ==
  [i \in 1..Len(filename) |-> IF filename[i] = "my scan" THEN "my_scan" ELSE filename[i]]

\* predict.py line 48-50: ORIGINAL_FOLDER/{user_id}_{timestamp}_{filename}
OriginalPath(user_id, timestamp, filename) ==
  [folder |-> "original", user_id |-> user_id, timestamp |-> timestamp,
   name |-> filename, id |-> 0]

\* predict.py line 58-59: HEATMAP_FOLDER/heatmap_{unique_filename}
HeatmapPath(original_path) == [original_path EXCEPT !.folder = "heatmaps"]

\* reports.py line 45-46: REPORTS_FOLDER/report_{user_id}_{id}_{timestamp}.pdf
ReportPath(user_id, id, timestamp) ==
  [folder |-> "reports", user_id |-> user_id, timestamp |-> timestamp,
   name |-> << >>, id |-> id]

\* writing a file creates it or replaces what was at the path
DiskWrite(d, path, content) ==
  [q \in DOMAIN d \cup { path } |-> IF q = path THEN content ELSE d[q]]

DiskRemove(d, path) == [q \in DOMAIN d \ { path } |-> d[q]]

ImageContent(x) == [kind |-> "image", of |-> x, label |-> "", id |-> 0]
HeatmapContent(x, label) == [kind |-> "heatmap", of |-> x, label |-> label, id |-> 0]
PdfContent(id) == [kind |-> "pdf", of |-> "", label |-> "", id |-> id]
PartialPdf == [kind |-> "partial", of |-> "", label |-> "", id |-> 0]
TruncatedHeatmap == [kind |-> "truncated", of |-> "", label |-> "", id |-> 0]

\* the class the trained classifier gives an image: a function of its content
ClassOf(x) == IF x = "xray1" THEN "cancer" ELSE "normal"

\* a response to a client: what is sent or where the client is redirected,
\* and the message flashed with it
Response(c, op, kind, flash, id, path) ==
  [client |-> c, op |-> op, kind |-> kind, flash |-> flash, id |-> id, path |-> path]

\* every client is logged in (login_required lets the request through) as
\* one of the users, the first client as user 1; nothing has been uploaded
UploadInit ==
  /\ HeatAtRest
  /\ ConcAtRest
  /\ GradAtRest
  /\ db = << >>
  /\ disk = << >>
  /\ \E u \in { v \in [Clients -> Users] : v["a"] = 1 } :
       session = [c \in Clients |-> [user_id |-> u[c], last_prediction_id |-> 0]]
  /\ reqs = [c \in Clients |-> NoReq]
  /\ resp = NoResp
  /\ clock = 0
  /\ attempts = 0

\* predict.py lines 89-91: the except branch of upload
UploadFails(c) ==
  /\ reqs' = [reqs EXCEPT ![c] = NoReq]
  /\ resp' = Response(c, "upload", "redirect_dashboard", "error", 0, NoPath)

\* predict.py lines 30-51: the three rejections, then the file name from the
\* session user, the clock and secure_filename, and file.save
UploadSave(c, file, outcome) ==
  /\ reqs[c].pc = "none"
  /\ IF ~file.present \/ file.filename = << >> \/ ~allowed_file(file.filename)
     THEN /\ resp' = Response(c, "upload", "redirect_dashboard", "error", 0, NoPath)
          /\ UNCHANGED <<disk, reqs, attempts>>
     ELSE /\ attempts < MaxAttempts
          /\ LET filename == secure_filename(file.filename)
                 original_path == OriginalPath(session[c].user_id, clock, filename)
             IN  IF outcome = "ok"
                 THEN /\ disk' = DiskWrite(disk, original_path, ImageContent(file.content))
                      /\ reqs' = [reqs EXCEPT ![c] =
                           [NoReq EXCEPT !.pc = "saved", !.op = "upload",
                                         !.original_path = original_path,
                                         !.trace = <<"save">>]]
                      /\ attempts' = attempts + 1
                      /\ UNCHANGED resp
                 ELSE UploadFails(c) /\ UNCHANGED <<disk, attempts>>
  /\ UNCHANGED <<db, session, clock, vars, concvars, gradvars>>

\* predict.py lines 54-55: the classifier reads the file at original_path,
\* which is the saved file unless another upload has replaced it
UploadPredict(c, outcome) ==
  /\ reqs[c].pc = "saved"
  /\ IF outcome = "ok"
     THEN /\ reqs' = [reqs EXCEPT ![c] =
               [@ EXCEPT !.pc = "predicted",
                         !.prediction_class = ClassOf(disk[reqs[c].original_path].of),
                         !.trace = Append(@, "predict")]]
          /\ UNCHANGED resp
     ELSE UploadFails(c)
  /\ UNCHANGED <<db, disk, session, clock, attempts, vars, concvars, gradvars>>

\* predict.py lines 58-68 and gradcam.py lines 103-110:
\* generate_gradcam_heatmap is called with target_class=None and classifies
\* the file at original_path again
UploadHeatmapClassify(c, outcome) ==
  /\ reqs[c].pc = "predicted"
  /\ IF outcome = "ok"
     THEN /\ reqs' = [reqs EXCEPT ![c] =
               [@ EXCEPT !.pc = "classified",
                         !.predicted_class = ClassOf(disk[reqs[c].original_path].of)]]
          /\ UNCHANGED resp
     ELSE UploadFails(c)
  /\ UNCHANGED <<db, disk, session, clock, attempts, vars, concvars, gradvars>>

\* gradcam.py lines 113 and 25-78: generate_simple_heatmap reads the file at
\* original_path with cv2.imread, and raises ValueError when it is no image
UploadHeatmapRead(c) ==
  /\ reqs[c].pc = "classified"
  /\ IF disk[reqs[c].original_path].kind = "image"
     THEN /\ reqs' = [reqs EXCEPT ![c] =
               [@ EXCEPT !.pc = "blended", !.image = disk[reqs[c].original_path].of]]
          /\ UNCHANGED resp
     ELSE UploadFails(c)
  /\ UNCHANGED <<db, disk, session, clock, attempts, vars, concvars, gradvars>>

\* gradcam.py lines 80-84: cv2.imwrite of the overlay of the image read, in
\* the colours of the class predicted, to heatmap_path; the call returns
\* also when imwrite wrote nothing or left a truncated file, and raises
\* when imwrite raises
UploadHeatmapWrite(c, outcome) ==
  /\ reqs[c].pc = "blended"
  /\ LET heatmap_path == HeatmapPath(reqs[c].original_path)
     IN  disk' = IF outcome = "ok"
                 THEN DiskWrite(disk, heatmap_path,
                                HeatmapContent(reqs[c].image, reqs[c].predicted_class))
                 ELSE IF outcome = "truncated"
                 THEN DiskWrite(disk, heatmap_path, TruncatedHeatmap)
                 ELSE disk
  /\ IF outcome # "error"
     THEN /\ reqs' = [reqs EXCEPT ![c] =
               [@ EXCEPT !.pc = "heatmapped", !.trace = Append(@, "heatmap")]]
          /\ UNCHANGED resp
     ELSE UploadFails(c)
  /\ UNCHANGED <<db, session, clock, attempts, vars, concvars, gradvars>>

\* predict.py lines 71-87: the row is added and committed, its id goes to the
\* session, and the client is sent to the results page
UploadCommit(c, outcome) ==
  /\ reqs[c].pc = "heatmapped"
  /\ IF outcome = "ok"
     THEN /\ db' = Append(db, [user_id |-> session[c].user_id,
                               original_image_path |-> reqs[c].original_path,
                               heatmap_image_path |-> HeatmapPath(reqs[c].original_path),
                               prediction_class |-> reqs[c].prediction_class,
                               report_path |-> NoPath])
          /\ session' = [session EXCEPT ![c].last_prediction_id = Len(db')]
          /\ reqs' = [reqs EXCEPT ![c] = NoReq]
          /\ resp' = Response(c, "upload", "redirect_results", "success", Len(db'), NoPath)
     ELSE UploadFails(c) /\ UNCHANGED <<db, session>>
  /\ UNCHANGED <<disk, clock, attempts, vars, concvars, gradvars>>

\* the ids a request may name: those of the rows there are, and one more
PredictionIds == 1..(Len(db) + 1)

\* the owner check left out
UnauthorizedNever(c, id) == FALSE

\* prediction.user_id != session['user_id']
Unauthorized(c, id) == db[id].user_id # session[c].user_id

\* prediction.report_path and os.path.exists(prediction.report_path), on the
\* row as the request has read it
ReportExists(prediction) ==
  prediction.report_path # NoPath /\ prediction.report_path \in DOMAIN disk

\* predict.py lines 94-112: get_or_404, the owner check, the results page
results(c, id) ==
  /\ reqs[c].pc = "none"
  /\ resp' = IF id > Len(db) THEN Response(c, "results", "not_found", "", id, NoPath)
             ELSE IF Unauthorized(c, id)
             THEN Response(c, "results", "redirect_dashboard", "Unauthorized access", id, NoPath)
             ELSE Response(c, "results", "render_results", "", id, NoPath)
  /\ UNCHANGED <<db, disk, session, reqs, clock, attempts, vars, concvars, gradvars>>

\* reports.py lines 27-32 and 87-92: get_or_404 reads the row, and the
\* owner check sends any other user to the dashboard
LoadPrediction(c, op, id) ==
  /\ reqs[c].pc = "none"
  /\ IF id > Len(db)
     THEN /\ resp' = Response(c, op, "not_found", "", id, NoPath)
          /\ UNCHANGED reqs
     ELSE IF Unauthorized(c, id)
     THEN /\ resp' = Response(c, op, "redirect_dashboard", "Unauthorized access", id, NoPath)
          /\ UNCHANGED reqs
     ELSE /\ reqs' = [reqs EXCEPT ![c] =
               [NoReq EXCEPT !.pc = "loaded", !.op = op, !.id = id, !.prediction = db[id]]]
          /\ UNCHANGED resp
  /\ UNCHANGED <<db, disk, session, clock, attempts, vars, concvars, gradvars>>

\* reports.py lines 23-32: generate is entered
generate(c, id) == LoadPrediction(c, "generate", id)

\* reports.py lines 83-92: download is entered
download(c, id) == LoadPrediction(c, "download", id)

\* reports.py lines 78-80: the except branch of generate
GenerateFails(c, flash) ==
  /\ reqs' = [reqs EXCEPT ![c] = NoReq]
  /\ resp' = Response(c, "generate", "redirect_results", flash, reqs[c].id, NoPath)

\* reports.py lines 36-46: the test for an existing report, which is sent
\* again, and otherwise the name of the new report from the session user,
\* the prediction and the clock
GenerateExists(c) ==
  /\ reqs[c].pc = "loaded"
  /\ reqs[c].op = "generate"
  /\ reqs' = [reqs EXCEPT ![c] =
       IF ReportExists(reqs[c].prediction)
       THEN [@ EXCEPT !.pc = "sending", !.report_path = reqs[c].prediction.report_path]
       ELSE [@ EXCEPT !.pc = "generating",
                      !.report_path = ReportPath(session[c].user_id, reqs[c].id, clock)]]
  /\ UNCHANGED <<db, disk, session, resp, clock, attempts, vars, concvars, gradvars>>

\* what generate_pdf_report may do: write the report, or raise before or
\* after it created the file
PdfOutcomes == { "ok", "pdf_error", "pdf_partial" }

\* reports.py lines 48-66: generate_pdf_report writes the PDF to report_path
GeneratePdf(c, outcome) ==
  /\ reqs[c].pc = "generating"
  /\ disk' = IF outcome = "ok"
             THEN DiskWrite(disk, reqs[c].report_path, PdfContent(reqs[c].id))
             ELSE IF outcome = "pdf_partial"
             THEN DiskWrite(disk, reqs[c].report_path, PartialPdf)
             ELSE disk
  /\ IF outcome = "ok"
     THEN /\ reqs' = [reqs EXCEPT ![c].pc = "written"]
          /\ UNCHANGED resp
     ELSE GenerateFails(c, "error")
  /\ UNCHANGED <<db, session, clock, attempts, vars, concvars, gradvars>>

\* reports.py lines 69-72: report_path is recorded in the row and committed,
\* and the success message is flashed
GenerateCommit(c, outcome) ==
  /\ reqs[c].pc = "written"
  /\ IF outcome = "ok"
     THEN /\ db' = [db EXCEPT ![reqs[c].id].report_path = reqs[c].report_path]
          /\ reqs' = [reqs EXCEPT ![c] = [@ EXCEPT !.pc = "sending", !.flash = "generated"]]
          /\ UNCHANGED resp
     ELSE GenerateFails(c, "error") /\ UNCHANGED db
  /\ UNCHANGED <<disk, session, clock, attempts, vars, concvars, gradvars>>

\* reports.py lines 94-96: 'Report not found' unless the recorded report is
\* on disk
DownloadExists(c) ==
  /\ reqs[c].pc = "loaded"
  /\ reqs[c].op = "download"
  /\ IF ReportExists(reqs[c].prediction)
     THEN /\ reqs' = [reqs EXCEPT ![c] =
               [@ EXCEPT !.pc = "sending", !.report_path = reqs[c].prediction.report_path]]
          /\ UNCHANGED resp
     ELSE /\ reqs' = [reqs EXCEPT ![c] = NoReq]
          /\ resp' = Response(c, "download", "redirect_results", "Report not found",
                              reqs[c].id, NoPath)
  /\ UNCHANGED <<db, disk, session, clock, attempts, vars, concvars, gradvars>>

\* reports.py lines 11-20: the file is opened, read and sent.  When it is
\* gone, open raises FileNotFoundError, which generate catches (78-80) and
\* download does not
send_pdf_file(c) ==
  /\ reqs[c].pc = "sending"
  /\ reqs' = [reqs EXCEPT ![c] = NoReq]
  /\ resp' = IF reqs[c].report_path \in DOMAIN disk
             THEN Response(c, reqs[c].op, "send_file", reqs[c].flash, reqs[c].id,
                           reqs[c].report_path)
             ELSE IF reqs[c].op = "generate"
             THEN Response(c, "generate", "redirect_results",
                           IF reqs[c].flash = "generated" THEN "generated, error" ELSE "error",
                           reqs[c].id, NoPath)
             ELSE Response(c, "download", "server_error", "", reqs[c].id, NoPath)
  /\ UNCHANGED <<db, disk, session, clock, attempts, vars, concvars, gradvars>>

\* a report file is removed from the reports folder, the case
\* os.path.exists is there for
ReportLost(path) ==
  /\ path \in DOMAIN disk
  /\ path.folder = "reports"
  /\ disk' = DiskRemove(disk, path)
  /\ UNCHANGED <<db, session, reqs, resp, clock, attempts, vars, concvars, gradvars>>

\* a second passes
Tick ==
  /\ clock < MaxClock
  /\ clock' = clock + 1
  /\ UNCHANGED <<db, disk, session, reqs, resp, attempts, vars, concvars, gradvars>>

UploadNext ==
  \/ \E c \in Clients, file \in Uploads, outcome \in { "ok", "raise" } :
       UploadSave(c, file, outcome)
  \/ \E c \in Clients, outcome \in { "ok", "raise" } : UploadPredict(c, outcome)
  \/ \E c \in Clients, outcome \in { "ok", "raise" } : UploadHeatmapClassify(c, outcome)
  \/ \E c \in Clients : UploadHeatmapRead(c)
  \/ \E c \in Clients, outcome \in WriteOutcomes : UploadHeatmapWrite(c, outcome)
  \/ \E c \in Clients, outcome \in { "ok", "raise" } : UploadCommit(c, outcome)
  \/ Tick

\* the clients upload, concurrently, while the clock runs
UploadSpec == UploadInit /\ [][UploadNext]_<<webvars, vars, concvars, gradvars>>

\* the row a successful upload of a file by a client at a second commits
RowOf(c, file, timestamp) ==
  LET original_path == OriginalPath(session[c].user_id, timestamp, secure_filename(file.filename))
  IN  [user_id |-> session[c].user_id,
       original_image_path |-> original_path,
       heatmap_image_path |-> HeatmapPath(original_path),
       prediction_class |-> ClassOf(file.content),
       report_path |-> NoPath]

\* the reports start where the first client has uploaded one image with
\* success: one row, its image and heatmap files, no report yet
ReportInit ==
  /\ HeatAtRest
  /\ ConcAtRest
  /\ GradAtRest
  /\ \E u \in { v \in [Clients -> Users] : v["a"] = 1 } :
       session = [c \in Clients |->
                   [user_id |-> u[c], last_prediction_id |-> IF c = "a" THEN 1 ELSE 0]]
  /\ LET file == [present |-> TRUE, filename |-> <<"my scan", ".", "png">>, content |-> "xray1"]
         row == RowOf("a", file, 0)
     IN  /\ db = <<row>>
         /\ disk = DiskWrite(DiskWrite(<< >>,
                      row.original_image_path, ImageContent(file.content)),
                      row.heatmap_image_path, HeatmapContent(file.content, row.prediction_class))
  /\ reqs = [c \in Clients |-> NoReq]
  /\ resp = NoResp
  /\ clock = 0
  /\ attempts = 1

ReportNext ==
  \/ \E c \in Clients, id \in PredictionIds : results(c, id)
  \/ \E c \in Clients, id \in PredictionIds : generate(c, id)
  \/ \E c \in Clients, id \in PredictionIds : download(c, id)
  \/ \E c \in Clients : GenerateExists(c)
  \/ \E c \in Clients, outcome \in PdfOutcomes : GeneratePdf(c, outcome)
  \/ \E c \in Clients, outcome \in { "ok", "raise" } : GenerateCommit(c, outcome)
  \/ \E c \in Clients : DownloadExists(c)
  \/ \E c \in Clients : send_pdf_file(c)
  \/ \E path \in DOMAIN disk : ReportLost(path)
  \/ Tick

\* the clients look at results and ask for reports, concurrently, while the
\* clock runs and report files may get lost
ReportSpec == ReportInit /\ [][ReportNext]_<<webvars, vars, concvars, gradvars>>

\* client c is the user the prediction belongs to
Owner(c, id) == db[id].user_id = session[c].user_id

\* C13: results, report-generate and report-download show or send data of a
\* prediction only to the session user whose id is the prediction's user_id:
\* a results page or a file goes to the owner, and the file is the report of
\* that prediction and owner; for any other logged-in user the operation
\* redirects to the dashboard and changes nothing (no report file is
\* created, report_path is unchanged, no request is left in progress)
OnlyOwnerIsServed ==
  [][/\ resp'.kind \in { "render_results", "send_file" } =>
          /\ resp'.id \in 1..Len(db)
          /\ Owner(resp'.client, resp'.id)
          /\ resp'.kind = "send_file" =>
               /\ resp'.path.folder = "reports"
               /\ resp'.path.id = resp'.id
               /\ resp'.path.user_id = session[resp'.client].user_id
     /\ \A c \in Clients, id \in 1..Len(db) :
          (~Owner(c, id) /\ (results(c, id) \/ generate(c, id) \/ download(c, id))) =>
            /\ resp'.client = c
            /\ resp'.kind = "redirect_dashboard"
            /\ resp'.id = id
            /\ disk' = disk
            /\ db' = db
            /\ reqs' = reqs]_<<webvars, vars, concvars, gradvars>>

\* a user who is not the owner asked to download a prediction whose report
\* is on disk, and was sent to the dashboard
OnlyOwnerIsServedWitness ==
  /\ resp.op = "download"
  /\ resp.kind = "redirect_dashboard"
  /\ ~Owner(resp.client, resp.id)
  /\ db[resp.id].report_path \in DOMAIN disk
  /\ disk[db[resp.id].report_path].kind = "pdf"

\* the file names of FileNames whose extension is png, jpg or jpeg in any case
AcceptedNames ==
  { <<"scan", ".", "PNG">>, <<"my scan", ".", "png">>, <<"my_scan", ".", "png">> }

\* the posted form has no file, an unnamed file, or one with a disallowed extension
Rejected(file) == ~file.present \/ file.filename \notin AcceptedNames
RejectedUploads == { file \in Uploads : Rejected(file) }

\* client c's upload ended in this step with the redirect to the dashboard
UploadEndsInFailure(c) ==
  /\ resp' = Response(c, "upload", "redirect_dashboard", "error", 0, NoPath)
  /\ reqs'[c] = NoReq
  /\ reqs[c] # NoReq \/ resp' # resp

\* C14: in upload a Prediction row is committed only after the original
\* file was saved, the classifier returned and the heatmap generation
\* returned without raising, in that order; if one of these steps raises,
\* or the file is missing, unnamed or has a disallowed extension, no row is
\* added and session['last_prediction_id'] is left unchanged
CommitOnlyAfterAllSteps ==
  [][/\ db' # db =>
          \E c \in Clients :
            /\ reqs[c].trace = <<"save", "predict", "heatmap">>
            /\ reqs[c].original_path \in DOMAIN disk
            /\ Len(db') = Len(db) + 1
            /\ db'[Len(db')].original_image_path = reqs[c].original_path
            /\ db'[Len(db')].user_id = session[c].user_id
            /\ session'[c].last_prediction_id = Len(db')
     /\ \A c \in Clients :
          UploadEndsInFailure(c) => (db' = db /\ session' = session)
     \* a step that changes a row, a session, a file or a request, or that does
     \* not answer with the redirect to the dashboard, is not the upload of a
     \* rejected form
     /\ \A c \in Clients :
          (reqs[c].pc = "none" /\ <<db, session, disk, reqs>> # <<db', session', disk', reqs'>>) =>
            \A file \in RejectedUploads : \A o \in { "ok", "raise" } : ~UploadSave(c, file, o)
     /\ \A c \in Clients :
          (reqs[c].pc = "none" /\ resp'.kind # "redirect_dashboard") =>
            \A file \in RejectedUploads : \A o \in { "ok", "raise" } : ~UploadSave(c, file, o)
    ]_<<webvars, vars, concvars, gradvars>>

\* one upload went through all its steps and was committed, another that had
\* passed validation raised on the way and left no row
CommitOnlyAfterAllStepsWitness ==
  /\ Len(db) = 1
  /\ attempts = 2
  /\ \A c \in Clients : reqs[c] = NoReq
  /\ resp = Response(resp.client, "upload", "redirect_dashboard", "error", 0, NoPath)
  /\ session[resp.client].last_prediction_id = 0
  /\ Cardinality({ q \in DOMAIN disk : q.folder = "original" }) = 2

\* a generate has succeeded for the prediction: the row records a report,
\* that report was the last file sent, freshly generated, and it is still on
\* disk, complete
Succeeded(id) ==
  /\ db[id].report_path # NoPath
  /\ resp = Response(resp.client, "generate", "send_file", "generated", id, db[id].report_path)
  /\ db[id].report_path \in DOMAIN disk
  /\ disk[db[id].report_path] = PdfContent(id)

\* the report files of a prediction on a disk
ReportsOf(d, id) == { q \in DOMAIN d : q.folder = "reports" /\ q.id = id }

\* C15: report generation is idempotent per prediction: once generate has
\* succeeded for a prediction and its report file still exists, what generate
\* and download do for it afterwards creates no report file and leaves
\* report_path unchanged, and a file they send is that same file;
\* report_path is set only after the PDF was generated without error;
\* download never creates a report or changes report_path
ReportGeneratedOnce ==
  [][/\ \A id \in 1..Len(db) :
          Succeeded(id) =>
            /\ db'[id].report_path = db[id].report_path
            /\ ReportsOf(disk', id) \subseteq ReportsOf(disk, id)
            /\ (resp' # resp /\ resp'.kind = "send_file" /\ resp'.id = id) =>
                 resp'.path = db[id].report_path
     /\ \A id \in 1..Len(db) :
          db'[id].report_path # db[id].report_path =>
            \E c \in Clients :
              /\ reqs[c].op = "generate"
              /\ reqs[c].id = id
              /\ reqs[c].pc = "written"
              /\ db'[id].report_path = reqs[c].report_path
     /\ \A c \in Clients :
          (reqs'[c] # reqs[c] /\ "download" \in { reqs[c].op, reqs'[c].op }) =>
            (disk' = disk /\ db' = db)
    ]_<<webvars, vars, concvars, gradvars>>

\* C16: after any sequence or interleaving of successful uploads, distinct
\* Prediction rows refer to distinct original image files and to distinct
\* heatmap files
DistinctRowsDistinctFiles ==
  \A i \in 1..Len(db), j \in 1..Len(db) :
    i # j => /\ db[i].original_image_path # db[j].original_image_path
             /\ db[i].heatmap_image_path # db[j].heatmap_image_path

====
